---- MODULE Spec2Model ----
(***************************************************************************)
(* Model of the MCP server manager (src/main/services/mcp-server-manager.ts)*)
(* and of the files it reads and writes: the persisted install-state       *)
(* document (~/.mcp-manager/config.json) and the four tool config files.   *)
(***************************************************************************)
EXTENDS Integers, Sequences, FiniteSets, TLC

\* ------------------------------------------------------------------ bounds
\* how many times the environment (user, other programs) touches the files
MaxEnvSteps == 1

\* the timer handles of the renderer
MaxTimers == 2

\* the install and uninstall calls the registry makes
MaxCalls == 2

\* the minutes the clock runs for
MaxMinutes == 21

\* ----------------------------------------------------------------- catalog
\* the vetted catalog, in source order: id, packageName, requiresAuth
vettedServers ==
  << [id |-> "github-mcp",     packageName |-> "@modelcontextprotocol/server-github",     requiresAuth |-> TRUE],
     [id |-> "filesystem-mcp", packageName |-> "@modelcontextprotocol/server-filesystem", requiresAuth |-> FALSE],
     [id |-> "fetch-mcp",      packageName |-> "@modelcontextprotocol/server-fetch",      requiresAuth |-> FALSE],
     [id |-> "git-mcp",        packageName |-> "@modelcontextprotocol/server-git",        requiresAuth |-> FALSE],
     [id |-> "memory-mcp",     packageName |-> "@modelcontextprotocol/server-memory",     requiresAuth |-> FALSE],
     [id |-> "time-mcp",       packageName |-> "@modelcontextprotocol/server-time",       requiresAuth |-> FALSE],
     [id |-> "azure-mcp",      packageName |-> "azure-mcp-server",                        requiresAuth |-> TRUE],
     [id |-> "aiven-mcp",      packageName |-> "@aiven/mcp-aiven",                        requiresAuth |-> TRUE] >>

VettedIds == {vettedServers[i].id : i \in 1..Len(vettedServers)}

\* this.vettedServers.find(s => s.id === serverId)
vettedById ==
  [id \in VettedIds |->
     CHOOSE s \in {vettedServers[i] : i \in 1..Len(vettedServers)} : s.id = id]

FindServer(serverId) == vettedById[serverId]

\* an identifier that is not in the catalog
UnknownId == "unknown-mcp"

\* the catalog servers the operations are called with: one that requires
\* authentication and one that does not
CatalogIds == {"github-mcp", "filesystem-mcp"}

\* the identifiers the public operations are called with
ServerIds == CatalogIds \cup {UnknownId}

\* ------------------------------------------------------------------- tools
\* the config files the manager writes, by tool identifier
AI_TOOL_CONFIG_PATHS == {"claude-desktop", "claude-code", "vscode", "cursor"}

\* the order in which configureAITools and removeFromAITools go through them
ToolOrder == <<"claude-desktop", "claude-code", "vscode", "cursor">>

\* the names pushed to configuredTools and removedFrom
DisplayName(t) ==
  CASE t = "claude-desktop" -> "Claude Desktop"
    [] t = "claude-code"    -> "Claude Code"
    [] t = "vscode"         -> "VS Code"
    [] t = "cursor"         -> "Cursor"

\* the top-level key under which a tool's writer keeps the server entries
Namespace(t) ==
  CASE t = "claude-desktop" -> "mcpServers"
    [] t = "claude-code"    -> "mcpServers"
    [] t = "vscode"         -> "mcp.servers"
    [] t = "cursor"         -> "mcp.servers"

\* the tools of the detector's table
toolConfigs == {"claude-code", "vscode", "cursor"}

\* the persisted install-state document and its key
StoreFile == "store"

InstalledKey == "installedServers"

Files == AI_TOOL_CONFIG_PATHS \cup {StoreFile}

\* ------------------------------------------------------------ file contents
\* A JSON file is absent, malformed (JSON.parse throws) or an object: a
\* function from its top-level keys to their values. The value of a
\* namespace key maps server identifiers to their entries.
EmptyMap == [k \in {} |-> 0]

AbsentFile    == [kind |-> "absent",    obj |-> EmptyMap]
MalformedFile == [kind |-> "malformed", obj |-> EmptyMap]
EmptyObject   == [kind |-> "ok",        obj |-> EmptyMap]

\* existsSync(path)
existsSync(f) == f.kind # "absent"

\* delete obj[k]
DeleteKey(m, k) == [x \in (DOMAIN m) \ {k} |-> m[x]]

\* obj[k] = v
SetKey(m, k, v) == [x \in (DOMAIN m) \cup {k} |-> IF x = k THEN v ELSE m[x]]

\* obj[k] || {}
GetOrEmpty(m, k) == IF k \in DOMAIN m THEN m[k] ELSE EmptyMap

\* config[ns]?.[serverId] of a file that parses
HasEntry(f, ns, serverId) ==
  /\ f.kind = "ok"
  /\ ns \in DOMAIN f.obj
  /\ serverId \in DOMAIN f.obj[ns]

\* getDefaultEnvVars(serverId): the names of the placeholder variables
getDefaultEnvVars(serverId) ==
  CASE serverId = "github-mcp" -> {"GITHUB_PERSONAL_ACCESS_TOKEN"}
    [] serverId = "notion-mcp" -> {"NOTION_API_KEY"}
    [] serverId = "slack-mcp"  -> {"SLACK_BOT_TOKEN"}
    [] serverId = "linear-mcp" -> {"LINEAR_API_KEY"}
    [] OTHER -> {}

\* the entry { command: 'npx', args: [packageName], env? } a writer builds
ServerEntry(serverId, serverConfig) ==
  [command |-> "npx",
   args    |-> <<serverConfig.packageName>>,
   hasEnv  |-> serverConfig.requiresAuth,
   env     |-> IF serverConfig.requiresAuth THEN getDefaultEnvVars(serverId) ELSE {}]

\* -------------------------------------------------------------- variables
VARIABLES
  store,       \* content of the persisted install-state document
  toolFiles,   \* tool identifier -> content of its config file
  unwritable,  \* the files whose creation or write fails (permissions, read-only disk)
  execFound,   \* detector tools whose executable or application bundle is found
  envSteps,    \* number of environment steps taken
  last,        \* the last operation and what it returned
  electronAPI, \* what the preload script exposes to the renderer as window.electronAPI
  servers,     \* AppStateManager.servers: server identifier -> in-memory server
  aiTools,     \* AppStateManager.aiTools: tool identifier -> in-memory tool
  listeners,   \* AppStateManager.listeners
  initialized, \* AppStateManager.initialized
  inflight,    \* backend calls of the registry that have not resolved yet
  notified,    \* the listeners called during the last registry operation
  regLast,     \* the last registry operation and what it returned
  ipc,         \* the last call of an IPC handler and what the caller got
  healthCheckInterval, \* AppStateManager.healthCheckInterval: a timer handle or null
  lastAIToolRefresh,   \* AppStateManager.lastAIToolRefresh: a time, 0 while it is unset
  now,         \* Date.now(), in minutes
  activeTimers, \* the interval timers of the renderer: handle -> period and next firing time
  tick,        \* what the last callback of the health-check timer did
  calls        \* the install and uninstall calls of the registry that have not resolved

\* the files and the main-process services
managerVars == <<store, toolFiles, unwritable, execFound, envSteps, last>>

\* the renderer's registry
rendererVars == <<electronAPI, servers, aiTools, listeners, initialized, inflight, notified, regLast>>

\* the health-check timer and the clock
timerVars == <<healthCheckInterval, lastAIToolRefresh, now, activeTimers, tick>>

\* the timers of the renderer and the calls in progress
eventLoopVars == <<healthCheckInterval, lastAIToolRefresh, now, activeTimers, tick, calls>>

vars == <<store, toolFiles, unwritable, execFound, envSteps, last,
          electronAPI, servers, aiTools, listeners, initialized, inflight, notified, regLast,
          ipc,
          healthCheckInterval, lastAIToolRefresh, now, activeTimers, tick, calls>>

\* --------------------------------------------------- persisted install state
\* the record addToInstalledList stores: catalog snapshot, installed, enabledTools
InstalledRecord(serverConfig) ==
  [packageName |-> serverConfig.packageName, installed |-> TRUE, enabledTools |-> << >>]

\* getInstalledServers(): {} when the file is absent, unreadable or has no
\* installedServers key
getInstalledServers(st) ==
  IF st.kind = "ok" THEN GetOrEmpty(st.obj, InstalledKey) ELSE EmptyMap

\* saveInstalledServers(installedServers): reads and parses the existing
\* document, replaces its installedServers key and writes it back; any
\* exception (parse error, write error) is caught and logged.
\* saved tells whether writeFileSync ran to completion.
saveInstalledServers(st, installedServers, canWrite) ==
  IF st.kind = "malformed" THEN [file |-> st, saved |-> FALSE]
  ELSE IF ~canWrite THEN [file |-> st, saved |-> FALSE]
  ELSE [file  |-> [kind |-> "ok", obj |-> SetKey(st.obj, InstalledKey, installedServers)],
        saved |-> TRUE]

\* addToInstalledList(serverId, config)
addToInstalledList(st, serverId, canWrite) ==
  IF serverId \notin VettedIds THEN [file |-> st, saved |-> FALSE]
  ELSE saveInstalledServers(st,
         SetKey(getInstalledServers(st), serverId, InstalledRecord(FindServer(serverId))),
         canWrite)

\* removeFromInstalledList(serverId)
removeFromInstalledList(st, serverId, canWrite) ==
  saveInstalledServers(st, DeleteKey(getInstalledServers(st), serverId), canWrite)

\* isServerInstalled(packageName): some record of the document carries the
\* package name
isServerInstalled_anyRecord(st, packageName) ==
  DOMAIN getInstalledServers(st) # {}

isServerInstalled(st, packageName) ==
  \E k \in DOMAIN getInstalledServers(st) :
    getInstalledServers(st)[k].packageName = packageName

\* getEnabledTools(serverId): installedServers[serverId]?.enabledTools || []
getEnabledTools(st, serverId) ==
  IF serverId \in DOMAIN getInstalledServers(st)
  THEN getInstalledServers(st)[serverId].enabledTools
  ELSE << >>

\* getVettedServers(): the catalog with the installed flag and the enabled
\* tools read from the document
getVettedServers(st) ==
  [id \in VettedIds |->
     [installed    |-> isServerInstalled(st, FindServer(id).packageName),
      enabledTools |-> getEnabledTools(st, id)]]

\* toolName occurs in the list
Includes(list, x) == \E i \in 1..Len(list) : list[i] = x

\* list.filter(y => y !== x)
Without(list, x) == SelectSeq(list, LAMBDA y : y # x)

\* enableServerForTool(serverId, toolName): false when the document has no
\* record of the server; otherwise the tool name is pushed unless the list
\* includes it, and the document is saved
enableServerForTool(st, serverId, toolName, canWrite) ==
  IF serverId \notin DOMAIN getInstalledServers(st)
  THEN [file |-> st, result |-> FALSE, saved |-> FALSE]
  ELSE IF Includes(getInstalledServers(st)[serverId].enabledTools, toolName)
  THEN [file |-> st, result |-> TRUE, saved |-> FALSE]
  ELSE LET saving == saveInstalledServers(st,
                       [getInstalledServers(st) EXCEPT
                          ![serverId].enabledTools = Append(@, toolName)],
                       canWrite)
       IN [file |-> saving.file, result |-> TRUE, saved |-> saving.saved]

\* disableServerForTool(serverId, toolName): false when the document has no
\* record of the server; otherwise the tool name is filtered out and the
\* document is saved
disableServerForTool(st, serverId, toolName, canWrite) ==
  IF serverId \notin DOMAIN getInstalledServers(st)
  THEN [file |-> st, result |-> FALSE, saved |-> FALSE]
  ELSE LET saving == saveInstalledServers(st,
                       [getInstalledServers(st) EXCEPT
                          ![serverId].enabledTools = Without(@, toolName)],
                       canWrite)
       IN [file |-> saving.file, result |-> TRUE, saved |-> saving.saved]

\* ------------------------------------------------------------ verification
\* the tri-state reduction at the end of verifyServerInstallation
OverallStatus_partialAsFailed(packageAvailable, configurationValid, serverResponds) ==
  IF packageAvailable /\ configurationValid
  THEN (IF serverResponds THEN "working" ELSE "partial")
  ELSE "failed"

OverallStatus(packageAvailable, configurationValid, serverResponds) ==
  IF packageAvailable /\ configurationValid
  THEN (IF serverResponds THEN "working" ELSE "partial")
  ELSE IF configurationValid THEN "partial"
  ELSE "failed"

FailedVerification ==
  [packageAvailable |-> FALSE, configurationValid |-> FALSE,
   serverResponds |-> FALSE, overallStatus |-> "failed"]

\* verifyServerInstallation(serverId); npmListed is the outcome of
\* checkNpmPackageInstalled, probeOk the outcome of the one-shot npx probe
verifyServerInstallation_probesAnyway(st, serverId, npmListed, probeOk) ==
  IF serverId \notin VettedIds THEN FailedVerification
  ELSE LET packageAvailable   == npmListed
           configurationValid == serverId \in DOMAIN getInstalledServers(st)
           serverResponds     == probeOk
       IN [packageAvailable   |-> packageAvailable,
           configurationValid |-> configurationValid,
           serverResponds     |-> serverResponds,
           overallStatus      |-> OverallStatus(packageAvailable, configurationValid, serverResponds)]

verifyServerInstallation(st, serverId, npmListed, probeOk) ==
  IF serverId \notin VettedIds THEN FailedVerification
  ELSE LET packageAvailable   == npmListed
           configurationValid == serverId \in DOMAIN getInstalledServers(st)
           serverResponds     == packageAvailable /\ probeOk
       IN [packageAvailable   |-> packageAvailable,
           configurationValid |-> configurationValid,
           serverResponds     |-> serverResponds,
           overallStatus      |-> OverallStatus(packageAvailable, configurationValid, serverResponds)]


\* ------------------------------------------------------------ config writer
\* JSON.parse(readFileSync(path)) with the writers' fallback to {} on a
\* parse failure (and {} when the file does not exist)
ReadOrEmpty(f) == IF f.kind = "ok" THEN f ELSE EmptyObject

\* config[ns] = config[ns] || {}; config[ns][serverId] = entry: the whole
\* object is written back with the one key of the server added or replaced
MergeEntry_dropKeys(config, ns, serverId, serverConfig) ==
  [kind |-> "ok",
   obj  |-> SetKey(EmptyMap, ns,
              SetKey(GetOrEmpty(config.obj, ns), serverId, ServerEntry(serverId, serverConfig)))]

MergeEntry_append(config, ns, serverId, serverConfig) ==
  [kind |-> "ok",
   obj  |-> SetKey(config.obj, ns,
              SetKey(GetOrEmpty(config.obj, ns),
                     IF serverId \in DOMAIN GetOrEmpty(config.obj, ns)
                     THEN "duplicate" ELSE serverId,
                     ServerEntry(serverId, serverConfig)))]

MergeEntry(config, ns, serverId, serverConfig) ==
  [kind |-> "ok",
   obj  |-> SetKey(config.obj, ns,
              SetKey(GetOrEmpty(config.obj, ns), serverId, ServerEntry(serverId, serverConfig)))]

\* what a writer step reports: the file it leaves, whether it raised
\* (mkdirSync or writeFileSync failed) and whether it wrote the file
Skipped(f) == [file |-> f, threw |-> FALSE, wrote |-> FALSE]

Threw(f) == [file |-> f, threw |-> TRUE, wrote |-> FALSE]

Wrote(f) == [file |-> f, threw |-> FALSE, wrote |-> TRUE]

\* configureClaudeDesktop: creates the directory and the file when missing
configureClaudeDesktop(f, serverId, serverConfig, canWrite) ==
  IF ~canWrite THEN Threw(f)
  ELSE Wrote(MergeEntry(ReadOrEmpty(f), "mcpServers", serverId, serverConfig))

\* configureClaudeCode: the same code on ~/.claude/config.json
configureClaudeCode(f, serverId, serverConfig, canWrite) ==
  IF ~canWrite THEN Threw(f)
  ELSE Wrote(MergeEntry(ReadOrEmpty(f), "mcpServers", serverId, serverConfig))

\* configureVSCode: returns without writing when settings.json is missing
configureVSCode(f, serverId, serverConfig, canWrite) ==
  IF ~existsSync(f) THEN Skipped(f)
  ELSE IF ~canWrite THEN Threw(f)
  ELSE Wrote(MergeEntry(ReadOrEmpty(f), "mcp.servers", serverId, serverConfig))

\* configureCursor: the same code on Cursor's settings.json
configureCursor_skipUnparsable(f, serverId, serverConfig, canWrite) ==
  IF ~existsSync(f) THEN Skipped(f)
  ELSE IF f.kind = "malformed" THEN Skipped(f)
  ELSE IF ~canWrite THEN Threw(f)
  ELSE Wrote(MergeEntry(ReadOrEmpty(f), "mcp.servers", serverId, serverConfig))

configureCursor(f, serverId, serverConfig, canWrite) ==
  IF ~existsSync(f) THEN Skipped(f)
  ELSE IF ~canWrite THEN Threw(f)
  ELSE Wrote(MergeEntry(ReadOrEmpty(f), "mcp.servers", serverId, serverConfig))

\* the write step configureAITools runs for one tool
ConfigureTool(t, f, serverId, serverConfig, canWrite) ==
  CASE t = "claude-desktop" -> configureClaudeDesktop(f, serverId, serverConfig, canWrite)
    [] t = "claude-code"    -> configureClaudeCode(f, serverId, serverConfig, canWrite)
    [] t = "vscode"         -> configureVSCode(f, serverId, serverConfig, canWrite)
    [] t = "cursor"         -> configureCursor(f, serverId, serverConfig, canWrite)

\* removeFromClaudeDesktop, removeFromClaudeCode, removeFromVSCode and
\* removeFromCursor differ in the path and the namespace only. Nothing
\* happens when the file is missing, cannot be parsed or has no entry for
\* the server; otherwise the entry is deleted and the file written back.
RemoveEntry_wholeSection(f, ns, serverId, canWrite) ==
  IF ~existsSync(f) THEN Skipped(f)
  ELSE IF f.kind = "malformed" THEN Skipped(f)
  ELSE IF ~HasEntry(f, ns, serverId) THEN Skipped(f)
  ELSE IF ~canWrite THEN Threw(f)
  ELSE Wrote([f EXCEPT !.obj = SetKey(f.obj, ns, EmptyMap)])

RemoveEntry(f, ns, serverId, canWrite) ==
  IF ~existsSync(f) THEN Skipped(f)
  ELSE IF f.kind = "malformed" THEN Skipped(f)
  ELSE IF ~HasEntry(f, ns, serverId) THEN Skipped(f)
  ELSE IF ~canWrite THEN Threw(f)
  ELSE Wrote([f EXCEPT !.obj = SetKey(f.obj, ns, DeleteKey(f.obj[ns], serverId))])

removeFromClaudeDesktop(f, serverId, canWrite) == RemoveEntry(f, "mcpServers", serverId, canWrite)

removeFromClaudeCode(f, serverId, canWrite) == RemoveEntry(f, "mcpServers", serverId, canWrite)

removeFromVSCode(f, serverId, canWrite) == RemoveEntry(f, "mcp.servers", serverId, canWrite)

removeFromCursor(f, serverId, canWrite) == RemoveEntry(f, "mcp.servers", serverId, canWrite)

\* the remove step removeFromAITools runs for one tool
RemoveFromTool(t, f, serverId, canWrite) ==
  CASE t = "claude-desktop" -> removeFromClaudeDesktop(f, serverId, canWrite)
    [] t = "claude-code"    -> removeFromClaudeCode(f, serverId, canWrite)
    [] t = "vscode"         -> removeFromVSCode(f, serverId, canWrite)
    [] t = "cursor"         -> removeFromCursor(f, serverId, canWrite)

\* the display names of the tools whose step did not throw, in call order
ToolsNotThrown(steps) ==
  LET ok == SelectSeq(ToolOrder, LAMBDA t : ~steps[t].threw)
  IN [i \in 1..Len(ok) |-> DisplayName(ok[i])]

\* what the four steps of a fan-out leave: the files, the list of tools
\* pushed to the result, the tools whose file was written
FanOut(steps) ==
  [files |-> [t \in AI_TOOL_CONFIG_PATHS |-> steps[t].file],
   tools |-> ToolsNotThrown(steps),
   wrote |-> {t \in AI_TOOL_CONFIG_PATHS : steps[t].wrote}]

\* configureAITools(serverId) with one try around the four write steps: the
\* steps after the first one that throws do not run
configureAITools_stopAtFirstFailure(files, serverId, unw) ==
  IF serverId \notin VettedIds
  THEN [files |-> files, tools |-> << >>, wrote |-> {}]
  ELSE LET steps == [t \in AI_TOOL_CONFIG_PATHS |->
                       ConfigureTool(t, files[t], serverId, FindServer(serverId), t \notin unw)]
           reached(t) == \A i \in 1..Len(ToolOrder) :
                           steps[ToolOrder[i]].threw =>
                             \A j \in 1..Len(ToolOrder) : ToolOrder[j] = t => j <= i
       IN FanOut([t \in AI_TOOL_CONFIG_PATHS |->
                    IF reached(t) THEN steps[t] ELSE Threw(files[t])])

\* configureAITools(serverId): the four write steps, each in its own try
configureAITools(files, serverId, unw) ==
  IF serverId \notin VettedIds
  THEN [files |-> files, tools |-> << >>, wrote |-> {}]
  ELSE FanOut([t \in AI_TOOL_CONFIG_PATHS |->
                 ConfigureTool(t, files[t], serverId, FindServer(serverId), t \notin unw)])

\* removeFromAITools(serverId): the four remove steps, each in its own try
removeFromAITools(files, serverId, unw) ==
  FanOut([t \in AI_TOOL_CONFIG_PATHS |->
            RemoveFromTool(t, files[t], serverId, t \notin unw)])

\* ---------------------------------------------------------- tool detection
\* detectTool(toolName).detected: an executable on PATH, an application
\* path, or the tool's config file
Detected(t, files, found) == t \in found \/ existsSync(files[t])

\* the names the IPC handlers and the registry are called with that the
\* detector's table does not hold: a tool of the config writer and a name
\* no part of the program knows
UnknownTool == "unknown-tool"

ToolNames == AI_TOOL_CONFIG_PATHS \cup {UnknownTool}

\* detectTool(toolName) for a tool of the detector's table. executable:
\* findExecutable found one (which throws when it finds none, and the
\* exception is caught there); versionOk: the version command ran (its
\* exception is caught in getVersion); appPath: findAppPath found an
\* application path; configPath: findConfigPath found a config file.
detectTool_configIgnored(toolName, executable, versionOk, appPath, configPath) ==
  [name |-> toolName, raised |-> FALSE,
   detected |-> executable \/ appPath,
   hasVersion |-> executable /\ versionOk, hasConfigPath |-> configPath]

detectTool(toolName, executable, versionOk, appPath, configPath) ==
  LET afterExecutable == executable
      afterAppPath    == IF ~afterExecutable THEN appPath ELSE afterExecutable
      afterConfigPath == IF configPath /\ ~afterAppPath THEN TRUE ELSE afterAppPath
  IN [name |-> toolName, raised |-> FALSE,
      detected |-> afterConfigPath,
      hasVersion |-> executable /\ versionOk, hasConfigPath |-> configPath]

\* detectTool(toolName) for a name outside the table: this.toolConfigs[toolName]
\* is undefined and reading config.displayName raises before the try block
detectToolRaises(toolName) ==
  [name |-> toolName, raised |-> TRUE,
   detected |-> FALSE, hasVersion |-> FALSE, hasConfigPath |-> FALSE]

\* detectAllTools(): detectTool for every tool of the table, on the machine
\* as it is (found: the tools whose executable or application is found; the
\* version and the way a tool was found do not reach the registry fields
\* that are modelled)
detectAllTools(files, found) ==
  [t \in toolConfigs |-> detectTool(t, t \in found, TRUE, FALSE, existsSync(files[t]))]


\* ----------------------------------------------------------------- results
\* what the last operation returned (success, details, verification), with
\* the facts about its file writes that the return value does not carry:
\* recordSaved (the install-state document was written), wrote (the tool
\* files that were written) and prev (the operation before it, kept when
\* that was an installServer of the same server).
NoPrev == <<"none", "">>

NoResult ==
  [op |-> "none", id |-> "", success |-> FALSE,
   packageInstalled |-> FALSE, configurationApplied |-> FALSE,
   configurationRemoved |-> FALSE, packageRemoved |-> FALSE,
   tools |-> << >>, wrote |-> {}, recordSaved |-> FALSE,
   verification |-> FailedVerification, tool |-> "",
   prev |-> NoPrev]

AfterInstallOf(serverId) ==
  IF last.op = "install" /\ last.id = serverId THEN <<"install", serverId>> ELSE NoPrev

\* the outcomes of the commands of a verification the manager is called
\* with: the availability check (npm list -g, then npx --help) fails
\* although the probe would answer; the package is available and the probe
\* fails; it is available and the probe succeeds
NpmOutcomes == {"unlisted", "silent", "responds"}

\* checkNpmPackageInstalled(packageName)
NpmLists(npm) == npm \in {"silent", "responds"}

\* the one-shot probe (a tools/list request piped to npx) exits without error
NpxResponds(npm) == npm \in {"unlisted", "responds"}

\* ---------------------------------------------------------------- registry
\* window.electronAPI: absent (no preload script ran), or the object the
\* preload script exposes
ExposedMethods ==
  {"detectAITools", "detectSpecificTool", "getConfigPaths", "checkConfigExists",
   "getVettedServers", "installMCPServer", "uninstallMCPServer",
   "enableServerForTool", "disableServerForTool",
   "getAppSettings", "updateAppSettings"}

\* window.electronAPI?.method
Exposed(api, method) == api = "preload" /\ method \in ExposedMethods

\* an in-memory tool: detection status and the servers enabled for it
FallbackTool == [status |-> "not_detected", enabledServers |-> << >>]

\* initializeFallbackAITools(): one record per key of AI_TOOL_CONFIG_PATHS
initializeFallbackAITools == [t \in AI_TOOL_CONFIG_PATHS |-> FallbackTool]

\* an entry of the static catalog of initializeFallbackServers()
FallbackServer ==
  [installed |-> FALSE, enabledTools |-> << >>, status |-> "failed", lastVerified |-> FALSE]

\* initializeFallbackServers(): the eight servers, none installed
initializeFallbackServers == [id \in VettedIds |-> FallbackServer]

\* the backend calls the constructor starts and does not wait for
ConstructorCalls(api) ==
  {c \in {"getVettedServers", "detectAITools"} : Exposed(api, c)}

\* what the last registry operation did: kept for installServer and
\* uninstallServer, which return a result, and for the load of the servers
NoCall == [op |-> "none", id |-> "", success |-> FALSE]

OtherCall == [op |-> "other", id |-> "", success |-> FALSE]

\* the registry right after new AppStateManager()
Constructed(api) ==
  /\ electronAPI = api
  /\ servers = EmptyMap
  /\ aiTools = initializeFallbackAITools
  /\ listeners = {}
  /\ initialized = FALSE
  /\ inflight = ConstructorCalls(api)
  /\ notified = {}
  /\ regLast = NoCall

\* what detectTool returned when no detection ran
NoDetection ==
  [name |-> "", raised |-> FALSE, detected |-> FALSE,
   hasVersion |-> FALSE, hasConfigPath |-> FALSE]

\* the outcomes of the checks of a detection, when none ran
NoChecks == [executable |-> FALSE, versionOk |-> FALSE, appPath |-> FALSE, configPath |-> FALSE]

\* what a caller of an IPC handler got: whether the service the handler
\* calls raised, whether the handler raised to the caller, the shape of the
\* value returned; for a detection, the checks and the tool returned
NoIpc == [channel |-> "none", arg |-> "", serviceRaised |-> FALSE,
          raised |-> FALSE, returned |-> "none",
          checks |-> NoChecks, tool |-> NoDetection]

\* healthCheckInterval = null
NoTimer == 0

\* Date.now() when the application starts, in minutes: far more than a
\* quarter of an hour after the epoch
ClockStart == 100

\* what a callback of the timer did, when none ran: the time it ran at, the
\* servers whose verification reached the backend, whether it refreshed the
\* tool detection
NoTick == [at |-> 0, verified |-> {}, refreshed |-> FALSE]

\* no call in progress: the calls the main process is working on, the
\* replies on their way to the renderer, the number of calls made and
\* whether a call was made while another one for the same server was
\* in progress
NoCalls == [main |-> {}, replies |-> << >>, issued |-> 0, overlapped |-> FALSE]

\* no timer was started and no call was made
IdleEventLoop ==
  /\ healthCheckInterval = NoTimer
  /\ lastAIToolRefresh = 0
  /\ now = ClockStart
  /\ activeTimers = EmptyMap
  /\ tick = NoTick
  /\ calls = NoCalls

\* a machine on which nothing happened yet
FreshMachine ==
  /\ store = AbsentFile
  /\ toolFiles = [t \in AI_TOOL_CONFIG_PATHS |-> AbsentFile]
  /\ unwritable = {}
  /\ execFound = {}
  /\ envSteps = 0
  /\ last = NoResult

\* -------------------------------------------------------------------- Init
\* a fresh machine: no install-state document, no tool config file, no tool
Init ==
  /\ store = AbsentFile
  /\ toolFiles = [t \in AI_TOOL_CONFIG_PATHS |-> AbsentFile]
  /\ unwritable = {}
  /\ execFound = {}
  /\ envSteps = 0
  /\ last = NoResult
  /\ Constructed("absent")
  /\ ipc = NoIpc
  /\ IdleEventLoop

\* -------------------------------------------------------------- operations
\* installServer(serverId) that looks the server up after step 3: the
\* install-state document is saved before the failure is returned
installUnknown_savesFirst(serverId) ==
  /\ serverId \notin VettedIds
  /\ store' = saveInstalledServers(store, getInstalledServers(store),
                                   StoreFile \notin unwritable).file
  /\ last' = [NoResult EXCEPT !.op = "install", !.id = serverId, !.success = FALSE]
  /\ UNCHANGED <<toolFiles, unwritable, execFound, envSteps>>

\* installServer(serverId) for an identifier outside the catalog
installUnknown(serverId) ==
  /\ serverId \notin VettedIds
  /\ last' = [NoResult EXCEPT !.op = "install", !.id = serverId, !.success = FALSE]
  /\ UNCHANGED <<store, toolFiles, unwritable, execFound, envSteps>>

\* installServer(serverId) for a catalog server. packageInstalled: the
\* package was already listed or installNpmPackage succeeded; npm: the
\* outcomes of the commands of the closing verification.
installServer(serverId, packageInstalled, npm) ==
  /\ serverId \in VettedIds
  /\ \E added \in {addToInstalledList(store, serverId, StoreFile \notin unwritable)},
        configResults \in {configureAITools(toolFiles, serverId, unwritable)} :
       LET configurationApplied == TRUE
           verificationResult ==
             verifyServerInstallation(added.file, serverId, NpmLists(npm), NpxResponds(npm))
       IN /\ store' = added.file
          /\ toolFiles' = configResults.files
          /\ last' = [NoResult EXCEPT
                        !.op = "install", !.id = serverId,
                        !.success = packageInstalled \/ configurationApplied,
                        !.packageInstalled = packageInstalled,
                        !.configurationApplied = configurationApplied,
                        !.tools = configResults.tools,
                        !.wrote = configResults.wrote,
                        !.recordSaved = added.saved,
                        !.verification = verificationResult,
                        !.prev = AfterInstallOf(serverId)]
          /\ UNCHANGED <<unwritable, execFound, envSteps>>

\* uninstallServer(serverId) for an identifier outside the catalog
uninstallUnknown(serverId) ==
  /\ serverId \notin VettedIds
  /\ last' = [NoResult EXCEPT !.op = "uninstall", !.id = serverId, !.success = FALSE]
  /\ UNCHANGED <<store, toolFiles, unwritable, execFound, envSteps>>

\* uninstallServer(serverId, {removePackage}) for a catalog server.
\* packageRemoved: removePackage was set and uninstallNpmPackage succeeded.
uninstallServer(serverId, packageRemoved) ==
  /\ serverId \in VettedIds
  /\ \E removedFrom \in {removeFromAITools(toolFiles, serverId, unwritable)},
        removed \in {removeFromInstalledList(store, serverId, StoreFile \notin unwritable)} :
       LET configurationRemoved == TRUE
       IN /\ store' = removed.file
          /\ toolFiles' = removedFrom.files
          /\ last' = [NoResult EXCEPT
                        !.op = "uninstall", !.id = serverId,
                        !.success = configurationRemoved \/ packageRemoved,
                        !.configurationRemoved = configurationRemoved,
                        !.packageRemoved = packageRemoved,
                        !.tools = removedFrom.tools,
                        !.wrote = removedFrom.wrote,
                        !.recordSaved = removed.saved,
                        !.prev = AfterInstallOf(serverId)]
          /\ UNCHANGED <<unwritable, execFound, envSteps>>

\* a call of verifyServerInstallation(serverId) through the verify handler
verifyServer(serverId, npm) ==
  /\ last' = [NoResult EXCEPT
                !.op = "verify", !.id = serverId,
                !.verification = verifyServerInstallation(store, serverId,
                                   NpmLists(npm), NpxResponds(npm))]
  /\ UNCHANGED <<store, toolFiles, unwritable, execFound, envSteps>>

InstallUnknown ==
  /\ installUnknown(UnknownId)
  /\ UNCHANGED <<rendererVars, ipc, eventLoopVars>>

InstallServer ==
  /\ \E serverId \in CatalogIds, packageInstalled \in BOOLEAN, npm \in NpmOutcomes :
       installServer(serverId, packageInstalled, npm)
  /\ UNCHANGED <<rendererVars, ipc, eventLoopVars>>

UninstallUnknown ==
  /\ uninstallUnknown(UnknownId)
  /\ UNCHANGED <<rendererVars, ipc, eventLoopVars>>

UninstallServer ==
  /\ \E serverId \in CatalogIds, packageRemoved \in BOOLEAN :
       uninstallServer(serverId, packageRemoved)
  /\ UNCHANGED <<rendererVars, ipc, eventLoopVars>>

VerifyServer ==
  /\ \E serverId \in ServerIds, npm \in NpmOutcomes :
       verifyServer(serverId, npm)
  /\ UNCHANGED <<rendererVars, ipc, eventLoopVars>>

\* ------------------------------------------------------------- environment
\* what happens to the files outside the program, at most MaxEnvSteps times
EnvResult == [NoResult EXCEPT !.op = "env"]

\* a file is damaged or hand-edited into something JSON.parse rejects
EnvCorrupt ==
  \E f \in Files :
    /\ envSteps < MaxEnvSteps
    /\ IF f = StoreFile
       THEN store' = MalformedFile /\ UNCHANGED toolFiles
       ELSE toolFiles' = [toolFiles EXCEPT ![f] = MalformedFile] /\ UNCHANGED store
    /\ envSteps' = envSteps + 1
    /\ last' = EnvResult
    /\ UNCHANGED <<unwritable, execFound, rendererVars, ipc, eventLoopVars>>

\* a tool (or its user) keeps a setting of its own in its config file
EnvAddKey ==
  \E t \in AI_TOOL_CONFIG_PATHS :
    /\ envSteps < MaxEnvSteps
    /\ toolFiles[t].kind # "malformed"
    /\ "unrelated" \notin DOMAIN toolFiles[t].obj
    /\ toolFiles' = [toolFiles EXCEPT ![t] =
                       [kind |-> "ok", obj |-> SetKey(@.obj, "unrelated", 1)]]
    /\ envSteps' = envSteps + 1
    /\ last' = EnvResult
    /\ UNCHANGED <<store, unwritable, execFound, rendererVars, ipc, eventLoopVars>>

\* one file, or the whole disk, becomes read-only
EnvReadOnly ==
  \E fs \in {{f} : f \in Files} \cup {Files} :
    /\ envSteps < MaxEnvSteps
    /\ ~(fs \subseteq unwritable)
    /\ unwritable' = unwritable \cup fs
    /\ envSteps' = envSteps + 1
    /\ last' = EnvResult
    /\ UNCHANGED <<store, toolFiles, execFound, rendererVars, ipc, eventLoopVars>>

\* a tool of the detector's table is installed on the machine
EnvInstallTool ==
  \E t \in toolConfigs :
    /\ envSteps < MaxEnvSteps
    /\ t \notin execFound
    /\ execFound' = execFound \cup {t}
    /\ envSteps' = envSteps + 1
    /\ last' = EnvResult
    /\ UNCHANGED <<store, toolFiles, unwritable, rendererVars, ipc, eventLoopVars>>

\* ------------------------------------------------------------ specification
Next ==
  \/ InstallServer
  \/ InstallUnknown
  \/ UninstallServer
  \/ UninstallUnknown
  \/ VerifyServer
  \/ EnvCorrupt
  \/ EnvAddKey
  \/ EnvReadOnly
  \/ EnvInstallTool

Spec == Init /\ [][Next]_vars

\* ------------------------------------------------------ registry operations
\* the subscribers: React components that took a subscription
Listeners == {"l1", "l2"}

\* the arguments updateServer is called with
ServerUpdates ==
  {[f \in {"installed"} |-> FALSE], [f \in {"status"} |-> "working"]}

\* the tools and the server toggleServerForTool is called with
ToggleTools == {"cursor", UnknownTool}

ToggleServers == {"github-mcp"}

\* what npm does while the registry calls the backend: the package cannot
\* be installed and is not listed, or it is installed and responds
RegistryNpmOutcomes == {"missing", "responds"}

\* { ...a, ...b }
Merge(a, b) == [f \in DOMAIN a \cup DOMAIN b |-> IF f \in DOMAIN b THEN b[f] ELSE a[f]]

\* the map of loadServersFromBackend: a backend server has no status and no
\* lastVerified
LoadedServers(backendServers) ==
  [id \in DOMAIN backendServers |->
     [installed    |-> backendServers[id].installed,
      enabledTools |-> backendServers[id].enabledTools,
      status       |-> IF backendServers[id].installed THEN "working" ELSE "failed",
      lastVerified |-> FALSE]]

\* the map of loadAIToolsFromBackend
LoadedTools(detectedTools) ==
  [t \in DOMAIN detectedTools |->
     [status         |-> IF detectedTools[t].detected THEN "detected" ELSE "not_detected",
      enabledServers |-> << >>]]

\* notifyListeners(): every listener of the set is called, in the call
notifyListeners_firstOnly(ls) == IF ls = {} THEN {} ELSE {CHOOSE l \in ls : TRUE}

notifyListeners(ls) == ls

\* if (!tool.enabledServers.includes(id)) tool.enabledServers.push(id), for
\* every tool of the registry
EnableForTools(tools, id) ==
  [t \in DOMAIN tools |->
     IF Includes(tools[t].enabledServers, id) THEN tools[t]
     ELSE [tools[t] EXCEPT !.enabledServers = Append(@, id)]]

\* tool.enabledServers = tool.enabledServers.filter(serverId => serverId !== id)
DisableForTools(tools, id) ==
  [t \in DOMAIN tools |-> [tools[t] EXCEPT !.enabledServers = Without(@, id)]]

\* an operation that changed nothing and called no listener
RegistryUntouched ==
  /\ notified' = {}
  /\ UNCHANGED <<electronAPI, servers, aiTools, listeners, initialized, inflight>>

\* loadServersFromBackend(), from the point where getVettedServers() resolves
\* or rejects
loadServersFromBackend(rejects) ==
  /\ "getVettedServers" \in inflight
  /\ inflight' = inflight \ {"getVettedServers"}
  /\ servers' = IF rejects THEN initializeFallbackServers
                ELSE LoadedServers(getVettedServers(store))
  /\ initialized' = TRUE
  /\ notified' = notifyListeners(listeners)
  /\ regLast' = [op |-> "loadServers", id |-> "", success |-> ~rejects]
  /\ UNCHANGED <<electronAPI, aiTools, listeners, managerVars, ipc, eventLoopVars>>

\* loadAIToolsFromBackend(), from the point where detectAITools() resolves or
\* rejects
loadAIToolsFromBackend(rejects) ==
  /\ "detectAITools" \in inflight
  /\ inflight' = inflight \ {"detectAITools"}
  /\ IF rejects
     THEN UNCHANGED aiTools /\ notified' = {}
     ELSE /\ aiTools' = LoadedTools(detectAllTools(toolFiles, execFound))
          /\ notified' = notifyListeners(listeners)
  /\ regLast' = OtherCall
  /\ UNCHANGED <<electronAPI, servers, listeners, initialized, managerVars, ipc, eventLoopVars>>

\* refreshServersFromBackend() and refreshAIToolsFromBackend(), up to the
\* await of the backend call (no call when the method is not exposed)
refreshFromBackend(method) ==
  /\ method \notin inflight
  /\ inflight' = IF Exposed(electronAPI, method) THEN inflight \cup {method} ELSE inflight
  /\ notified' = {}
  /\ regLast' = OtherCall
  /\ UNCHANGED <<electronAPI, servers, aiTools, listeners, initialized, managerVars, ipc, eventLoopVars>>

\* AppStateManager.installServer(id). Without the backend method, or when
\* the call rejects, a failure is returned and nothing changes. Otherwise
\* the install handler runs installServer of the manager and, on success,
\* the server found in the registry is marked and enabled for the tools.
registryInstallServer(id, rejects) ==
  IF ~Exposed(electronAPI, "installMCPServer") \/ rejects
  THEN /\ RegistryUntouched
       /\ regLast' = [op |-> "install", id |-> id, success |-> FALSE]
       /\ UNCHANGED <<managerVars, ipc, eventLoopVars>>
  ELSE /\ IF id \in VettedIds
          THEN \E npm \in RegistryNpmOutcomes :
                 installServer(id, npm # "missing", npm)
          ELSE installUnknown(id)
       /\ IF last'.success /\ id \in DOMAIN servers
          THEN /\ servers' = [servers EXCEPT ![id] =
                                [@ EXCEPT !.installed = TRUE, !.status = "working",
                                          !.lastVerified = TRUE]]
               /\ aiTools' = EnableForTools(aiTools, id)
               /\ notified' = notifyListeners(listeners)
          ELSE /\ notified' = {}
               /\ UNCHANGED <<servers, aiTools>>
       /\ regLast' = [op |-> "install", id |-> id, success |-> last'.success]
       /\ UNCHANGED <<electronAPI, listeners, initialized, inflight, ipc, eventLoopVars>>

\* AppStateManager.uninstallServer(id): the preload script passes the
\* identifier only, so the package is never removed
registryUninstallServer(id, rejects) ==
  IF ~Exposed(electronAPI, "uninstallMCPServer") \/ rejects
  THEN /\ RegistryUntouched
       /\ regLast' = [op |-> "uninstall", id |-> id, success |-> FALSE]
       /\ UNCHANGED <<managerVars, ipc, eventLoopVars>>
  ELSE /\ IF id \in VettedIds
          THEN uninstallServer(id, FALSE)
          ELSE uninstallUnknown(id)
       /\ IF last'.success /\ id \in DOMAIN servers
          THEN /\ servers' = [servers EXCEPT ![id] =
                                [@ EXCEPT !.installed = FALSE, !.status = "failed",
                                          !.lastVerified = FALSE]]
               /\ aiTools' = DisableForTools(aiTools, id)
               /\ notified' = notifyListeners(listeners)
          ELSE /\ notified' = {}
               /\ UNCHANGED <<servers, aiTools>>
       /\ regLast' = [op |-> "uninstall", id |-> id, success |-> last'.success]
       /\ UNCHANGED <<electronAPI, listeners, initialized, inflight, ipc, eventLoopVars>>

\* AppStateManager.verifyServerInstallation(serverId): null when the backend
\* method is not exposed or the call rejects; otherwise the status of the
\* server found is replaced by the overall status and lastVerified is set
registryVerifyServerInstallation(serverId, rejects) ==
  IF ~Exposed(electronAPI, "verifyServerInstallation") \/ rejects
  THEN /\ RegistryUntouched
       /\ regLast' = OtherCall
       /\ UNCHANGED <<managerVars, ipc, eventLoopVars>>
  ELSE /\ \E npm \in RegistryNpmOutcomes : verifyServer(serverId, npm)
       /\ IF serverId \in DOMAIN servers
          THEN /\ servers' = [servers EXCEPT ![serverId] =
                                [@ EXCEPT !.status = last'.verification.overallStatus,
                                          !.lastVerified = TRUE]]
               /\ notified' = notifyListeners(listeners)
          ELSE /\ notified' = {}
               /\ UNCHANGED servers
       /\ regLast' = OtherCall
       /\ UNCHANGED <<electronAPI, aiTools, listeners, initialized, inflight, ipc, eventLoopVars>>

\* runHealthCheckOnAll(): verifyServerInstallation of every installed
\* server, one after the other; one step of the loop
runHealthCheckOnAll(rejects) ==
  \E id \in {i \in DOMAIN servers : servers[i].installed} :
    registryVerifyServerInstallation(id, rejects)

\* updateServerStatus(id, status, lastVerified?)
updateServerStatus(id, status, lastVerified) ==
  /\ IF id \in DOMAIN servers
     THEN /\ servers' = [servers EXCEPT ![id] =
                           [@ EXCEPT !.status = status,
                                     !.lastVerified = IF lastVerified THEN TRUE ELSE @]]
          /\ notified' = notifyListeners(listeners)
     ELSE /\ notified' = {}
          /\ UNCHANGED servers
  /\ regLast' = OtherCall
  /\ UNCHANGED <<electronAPI, aiTools, listeners, initialized, inflight, managerVars, ipc, eventLoopVars>>

\* updateServer(id, updates)
updateServer(id, updates) ==
  /\ IF id \in DOMAIN servers
     THEN /\ servers' = [servers EXCEPT ![id] = Merge(@, updates)]
          /\ notified' = notifyListeners(listeners)
     ELSE /\ notified' = {}
          /\ UNCHANGED servers
  /\ regLast' = OtherCall
  /\ UNCHANGED <<electronAPI, aiTools, listeners, initialized, inflight, managerVars, ipc, eventLoopVars>>

\* toggleServerForTool(toolId, serverId)
toggleServerForTool(toolId, serverId) ==
  /\ IF toolId \in DOMAIN aiTools
     THEN /\ aiTools' = [aiTools EXCEPT ![toolId].enabledServers =
                           IF Includes(@, serverId) THEN Without(@, serverId)
                           ELSE Append(@, serverId)]
          /\ notified' = notifyListeners(listeners)
     ELSE /\ notified' = {}
          /\ UNCHANGED aiTools
  /\ regLast' = OtherCall
  /\ UNCHANGED <<electronAPI, servers, listeners, initialized, inflight, managerVars, ipc, eventLoopVars>>

\* subscribe(listener)
subscribe(listener) ==
  /\ listeners' = listeners \cup {listener}
  /\ notified' = {}
  /\ regLast' = OtherCall
  /\ UNCHANGED <<electronAPI, servers, aiTools, initialized, inflight, managerVars, ipc, eventLoopVars>>

\* the function subscribe(listener) returned
unsubscribe(listener) ==
  /\ listeners' = listeners \ {listener}
  /\ notified' = {}
  /\ regLast' = OtherCall
  /\ UNCHANGED <<electronAPI, servers, aiTools, initialized, inflight, managerVars, ipc, eventLoopVars>>

\* the identifiers the registry operations are called with
RegistryIds == {"github-mcp", UnknownId}

LoadServersFromBackend == \E rejects \in BOOLEAN : loadServersFromBackend(rejects)

LoadAIToolsFromBackend == \E rejects \in BOOLEAN : loadAIToolsFromBackend(rejects)

RefreshFromBackend ==
  \E method \in {"getVettedServers", "detectAITools"} : refreshFromBackend(method)

RegistryInstallServer ==
  \E id \in RegistryIds, rejects \in BOOLEAN : registryInstallServer(id, rejects)

RegistryUninstallServer ==
  \E id \in RegistryIds, rejects \in BOOLEAN : registryUninstallServer(id, rejects)

RegistryVerifyServerInstallation ==
  \E id \in RegistryIds, rejects \in BOOLEAN : registryVerifyServerInstallation(id, rejects)

RunHealthCheckOnAll == \E rejects \in BOOLEAN : runHealthCheckOnAll(rejects)

UpdateServerStatus ==
  \E id \in RegistryIds, status \in {"working", "failed"}, lastVerified \in BOOLEAN :
    updateServerStatus(id, status, lastVerified)

UpdateServer ==
  \E id \in RegistryIds, updates \in ServerUpdates : updateServer(id, updates)

ToggleServerForTool ==
  \E toolId \in ToggleTools, serverId \in ToggleServers : toggleServerForTool(toolId, serverId)

Subscribe == \E listener \in Listeners \ listeners : subscribe(listener)

Unsubscribe == \E listener \in listeners : unsubscribe(listener)

\* the application on a fresh machine, with or without the preload script
InitRegistry ==
  /\ FreshMachine
  /\ \E api \in {"absent", "preload"} : Constructed(api)
  /\ ipc = NoIpc
  /\ IdleEventLoop

NextRegistry ==
  \/ LoadServersFromBackend
  \/ LoadAIToolsFromBackend
  \/ RefreshFromBackend
  \/ RegistryInstallServer
  \/ RegistryUninstallServer
  \/ RegistryVerifyServerInstallation
  \/ RunHealthCheckOnAll
  \/ UpdateServerStatus
  \/ UpdateServer
  \/ ToggleServerForTool
  \/ Subscribe
  \/ Unsubscribe

SpecRegistry == InitRegistry /\ [][NextRegistry]_vars

\* ------------------------------------------------- enabling servers for tools
\* a call of enableServerForTool(serverId, toolName) through its handler
enableServer(serverId, toolName) ==
  /\ \E enabling \in {enableServerForTool(store, serverId, toolName, StoreFile \notin unwritable)} :
       /\ store' = enabling.file
       /\ last' = [NoResult EXCEPT !.op = "enable", !.id = serverId,
                                   !.tool = toolName,
                                   !.success = enabling.result,
                                   !.recordSaved = enabling.saved]
  /\ UNCHANGED <<toolFiles, unwritable, execFound, envSteps>>

\* a call of disableServerForTool(serverId, toolName) through its handler
disableServer(serverId, toolName) ==
  /\ \E disabling \in {disableServerForTool(store, serverId, toolName, StoreFile \notin unwritable)} :
       /\ store' = disabling.file
       /\ last' = [NoResult EXCEPT !.op = "disable", !.id = serverId,
                                   !.tool = toolName,
                                   !.success = disabling.result,
                                   !.recordSaved = disabling.saved]
  /\ UNCHANGED <<toolFiles, unwritable, execFound, envSteps>>

\* the servers that require authentication the manager is called with: one
\* with a placeholder of its own and one without
AuthServerIds == {"github-mcp", "azure-mcp"}

\* the server and the tool names the enable and disable handlers are called with
EnableServerIds == {"github-mcp", UnknownId}

EnableToolNames == {"cursor", UnknownTool}

ManagerInstallServer ==
  /\ \E serverId \in AuthServerIds, npm \in RegistryNpmOutcomes :
       installServer(serverId, npm # "missing", npm)
  /\ UNCHANGED <<rendererVars, ipc, eventLoopVars>>

ManagerUninstallServer ==
  /\ \E serverId \in AuthServerIds : uninstallServer(serverId, FALSE)
  /\ UNCHANGED <<rendererVars, ipc, eventLoopVars>>

EnableServerForTool ==
  /\ \E serverId \in EnableServerIds, toolName \in EnableToolNames :
       enableServer(serverId, toolName)
  /\ UNCHANGED <<rendererVars, ipc, eventLoopVars>>

DisableServerForTool ==
  /\ \E serverId \in EnableServerIds, toolName \in EnableToolNames :
       disableServer(serverId, toolName)
  /\ UNCHANGED <<rendererVars, ipc, eventLoopVars>>

\* the application with its preload script on a fresh machine
InitTools ==
  /\ FreshMachine
  /\ Constructed("preload")
  /\ ipc = NoIpc
  /\ IdleEventLoop

NextTools ==
  \/ ManagerInstallServer
  \/ ManagerUninstallServer
  \/ EnableServerForTool
  \/ DisableServerForTool
  \/ LoadServersFromBackend
  \/ LoadAIToolsFromBackend
  \/ RefreshFromBackend

SpecTools == InitTools /\ [][NextTools]_vars

\* ------------------------------------------------------------ IPC handlers
\* the channels whose handler wraps a service call in try/catch, with the
\* shape of the value its catch block returns
CatchReturns ==
  [c \in {"detect-ai-tools", "detect-specific-tool", "get-config-paths",
          "check-config-exists", "get-vetted-servers", "install-mcp-server",
          "uninstall-mcp-server", "verify-server-installation",
          "check-package-installed", "enable-server-for-tool",
          "disable-server-for-tool", "get-server-configuration",
          "configure-server-auth", "open-config-file", "reveal-config-file",
          "read-config-file", "write-config-file", "write-config-files"} |->
     CASE c \in {"detect-ai-tools", "get-vetted-servers"} -> "emptyList"
       [] c = "detect-specific-tool" -> "null"
       [] c = "get-config-paths" -> "emptyObject"
       [] c \in {"check-config-exists", "check-package-installed",
                 "enable-server-for-tool", "disable-server-for-tool"} -> "false"
       [] c = "verify-server-installation" -> "failedVerification"
       [] c = "get-server-configuration" -> "emptyConfiguration"
       [] OTHER -> "failure"]

\* the channels whose handler calls no service and has no try/catch
NoCatchChannels == {"get-app-settings", "update-app-settings"}

\* the argument a handler is called with
ArgsOf(c) ==
  CASE c \in {"install-mcp-server", "uninstall-mcp-server", "verify-server-installation",
              "get-server-configuration", "configure-server-auth",
              "enable-server-for-tool", "disable-server-for-tool"} -> ServerIds
    [] c \in {"detect-specific-tool", "check-config-exists"} -> ToolNames
    [] c = "check-package-installed" -> {FindServer(id).packageName : id \in CatalogIds}
    [] c \in {"open-config-file", "reveal-config-file", "read-config-file",
              "write-config-file", "write-config-files"} -> {"~/.claude/config.json"}
    [] OTHER -> {""}

\* try { return await service(...) } catch { return fallback }
TryCatch(channel, serviceRaised) ==
  [raised   |-> FALSE,
   returned |-> IF serviceRaised THEN CatchReturns[channel] ELSE "result"]

\* a handler that wraps a service call; serviceRaised: the service raised
handle(channel, arg, serviceRaised) ==
  /\ channel \in DOMAIN CatchReturns \ {"detect-specific-tool"}
  /\ ipc' = [NoIpc EXCEPT !.channel = channel, !.arg = arg,
                          !.serviceRaised = serviceRaised,
                          !.raised = TryCatch(channel, serviceRaised).raised,
                          !.returned = TryCatch(channel, serviceRaised).returned]
  /\ UNCHANGED <<managerVars, rendererVars, eventLoopVars>>

\* get-app-settings and update-app-settings: a literal is returned
handleSettings(channel) ==
  /\ channel \in NoCatchChannels
  /\ ipc' = [NoIpc EXCEPT !.channel = channel, !.returned = "result"]
  /\ UNCHANGED <<managerVars, rendererVars, eventLoopVars>>

\* detect-specific-tool: detectTool(toolName) inside try/catch
handleDetectSpecificTool(toolName, checks) ==
  /\ \E tool \in {IF toolName \in toolConfigs
                   THEN detectTool(toolName, checks.executable, checks.versionOk,
                                   checks.appPath, checks.configPath)
                   ELSE detectToolRaises(toolName)} :
       ipc' = [NoIpc EXCEPT !.channel = "detect-specific-tool", !.arg = toolName,
                            !.serviceRaised = tool.raised,
                            !.raised = TryCatch("detect-specific-tool", tool.raised).raised,
                            !.returned = TryCatch("detect-specific-tool", tool.raised).returned,
                            !.checks = IF tool.raised THEN NoChecks ELSE checks,
                            !.tool = tool]
  /\ UNCHANGED <<managerVars, rendererVars, eventLoopVars>>

\* the outcomes of the checks of one detection: the version command runs
\* only when an executable was found
Checks ==
  {c \in [executable : BOOLEAN, versionOk : BOOLEAN, appPath : BOOLEAN, configPath : BOOLEAN] :
     c.versionOk => c.executable}

Handle ==
  \E channel \in DOMAIN CatchReturns \ {"detect-specific-tool"} :
    \E arg \in ArgsOf(channel), serviceRaised \in BOOLEAN :
      handle(channel, arg, serviceRaised)

HandleSettings == \E channel \in NoCatchChannels : handleSettings(channel)

HandleDetectSpecificTool ==
  \E toolName \in ToolNames, checks \in Checks : handleDetectSpecificTool(toolName, checks)

\* the main process after setupIpcHandlers(), on a fresh machine
InitIpc ==
  /\ FreshMachine
  /\ Constructed("preload")
  /\ ipc = NoIpc
  /\ IdleEventLoop

NextIpc ==
  \/ Handle
  \/ HandleSettings
  \/ HandleDetectSpecificTool

SpecIpc == InitIpc /\ [][NextIpc]_vars


\* ------------------------------------------------------ periodic health check
\* startPeriodicHealthCheck(intervalMinutes = 5)
IntervalMinutes == 5

\* const fifteenMinutes = 15 * 60 * 1000, in minutes
FifteenMinutes == 15

\* the handles setInterval can return
TimerHandles == 1..MaxTimers

\* setInterval(callback, period): a handle that is not in use
setInterval(timers) ==
  CHOOSE h \in TimerHandles \ DOMAIN timers :
    \A g \in TimerHandles \ DOMAIN timers : h <= g

\* clearInterval(handle)
clearInterval(timers, timer) == [h \in DOMAIN timers \ {timer} |-> timers[h]]

\* the timers left by stopPeriodicHealthCheck(): the one the manager holds
\* is cleared
ClearedInterval(timers, interval) ==
  IF interval # NoTimer THEN clearInterval(timers, interval) ELSE timers

\* the servers the callback and runHealthCheckOnAll filter
InstalledServers == {id \in DOMAIN servers : servers[id].installed}

\* startPeriodicHealthCheck(intervalMinutes) that leaves the running timer alone
startPeriodicHealthCheck_keepsRunning(intervalMinutes) ==
  /\ TimerHandles \ DOMAIN activeTimers # {}
  /\ healthCheckInterval' = setInterval(activeTimers)
  /\ activeTimers' = SetKey(activeTimers, setInterval(activeTimers),
                            [startedAt |-> now, period |-> intervalMinutes,
                             next |-> now + intervalMinutes])
  /\ UNCHANGED <<lastAIToolRefresh, now, tick, calls, managerVars, rendererVars, ipc>>

\* startPeriodicHealthCheck(intervalMinutes): stopPeriodicHealthCheck(), then
\* setInterval
startPeriodicHealthCheck(intervalMinutes) ==
  LET stopped == ClearedInterval(activeTimers, healthCheckInterval) IN
  /\ TimerHandles \ DOMAIN stopped # {}
  /\ healthCheckInterval' = setInterval(stopped)
  /\ activeTimers' = SetKey(stopped, setInterval(stopped),
                            [startedAt |-> now, period |-> intervalMinutes,
                             next |-> now + intervalMinutes])
  /\ UNCHANGED <<lastAIToolRefresh, now, tick, calls, managerVars, rendererVars, ipc>>

\* stopPeriodicHealthCheck()
stopPeriodicHealthCheck ==
  /\ activeTimers' = ClearedInterval(activeTimers, healthCheckInterval)
  /\ healthCheckInterval' = NoTimer
  /\ UNCHANGED <<lastAIToolRefresh, now, tick, calls, managerVars, rendererVars, ipc>>

\* a minute passes; a timer that is due fires first
Advance ==
  /\ now < ClockStart + MaxMinutes
  /\ \A h \in DOMAIN activeTimers : activeTimers[h].next > now
  /\ now' = now + 1
  /\ UNCHANGED <<healthCheckInterval, lastAIToolRefresh, activeTimers, tick, calls,
                 managerVars, rendererVars, ipc>>

\* the servers after runHealthCheckOnAll(): verifyServerInstallation of the
\* registry for every installed server, which reaches the backend only when
\* the method is exposed
HealthChecked(npm) ==
  IF Exposed(electronAPI, "verifyServerInstallation")
  THEN [id \in DOMAIN servers |->
          IF servers[id].installed
          THEN [servers[id] EXCEPT
                  !.status = verifyServerInstallation(store, id, NpmLists(npm),
                                                      NpxResponds(npm)).overallStatus,
                  !.lastVerified = TRUE]
          ELSE servers[id]]
  ELSE servers

\* the callback of the timer, to its end: the health check when a server is
\* installed, then the refresh of the tool detection when the last one is a
\* quarter of an hour old
timerCallback(timer, npm) ==
  LET refresh == now - lastAIToolRefresh >= FifteenMinutes
      loads   == refresh /\ Exposed(electronAPI, "detectAITools")
      checks  == InstalledServers # {} /\ Exposed(electronAPI, "verifyServerInstallation")
  IN /\ timer \in DOMAIN activeTimers
     /\ activeTimers[timer].next = now
     /\ activeTimers' = [activeTimers EXCEPT ![timer].next = now + activeTimers[timer].period]
     /\ servers' = HealthChecked(npm)
     /\ aiTools' = IF loads THEN LoadedTools(detectAllTools(toolFiles, execFound)) ELSE aiTools
     /\ lastAIToolRefresh' = IF refresh THEN now ELSE lastAIToolRefresh
     /\ notified' = IF loads \/ checks THEN notifyListeners(listeners) ELSE {}
     /\ tick' = [at |-> now,
                 verified |-> IF checks THEN InstalledServers ELSE {},
                 refreshed |-> refresh]
     /\ regLast' = OtherCall
     /\ UNCHANGED <<healthCheckInterval, now, calls, electronAPI, listeners, initialized,
                    inflight, managerVars, ipc>>

StartPeriodicHealthCheck == startPeriodicHealthCheck(IntervalMinutes)

StopPeriodicHealthCheck == stopPeriodicHealthCheck

TimerCallback ==
  \E timer \in DOMAIN activeTimers, npm \in RegistryNpmOutcomes : timerCallback(timer, npm)

TimerInstallServer == registryInstallServer("github-mcp", FALSE)

\* the application with its preload script on a fresh machine, once the
\* two calls of the constructor resolved
InitTimer ==
  /\ FreshMachine
  /\ electronAPI = "preload"
  /\ servers = LoadedServers(getVettedServers(AbsentFile))
  /\ aiTools = LoadedTools(detectAllTools([t \in AI_TOOL_CONFIG_PATHS |-> AbsentFile], {}))
  /\ listeners = {}
  /\ initialized = TRUE
  /\ inflight = {}
  /\ notified = {}
  /\ regLast = OtherCall
  /\ ipc = NoIpc
  /\ IdleEventLoop

NextTimer ==
  \/ TimerInstallServer
  \/ StartPeriodicHealthCheck
  \/ StopPeriodicHealthCheck
  \/ Advance
  \/ TimerCallback

SpecTimer == InitTimer /\ [][NextTimer]_vars

\* ------------------------------------------- enabling on a failing file system
\* the enable and disable handlers with installs around them, on a machine
\* where files can become read-only
InitEnable ==
  /\ FreshMachine
  /\ Constructed("preload")
  /\ ipc = NoIpc
  /\ IdleEventLoop

NextEnable ==
  \/ ManagerInstallServer
  \/ EnableServerForTool
  \/ DisableServerForTool
  \/ EnvReadOnly

SpecEnable == InitEnable /\ [][NextEnable]_vars

\* ------------------------------------------------------- overlapping calls
\* The registry awaits the backend, so a second call can be made before the
\* first one resolved. In the main process installServer waits for npm
\* twice: before it adds the record (steps 1 and 2) and after it configured
\* the tools (step 5); uninstallServer without removePackage waits for no
\* command and runs to its end. The replies reach the renderer in the order
\* they were sent.

\* a call for the server is in the main process or its reply is on its way
Pending(id) ==
  \/ \E c \in calls.main : c.id = id
  \/ \E i \in 1..Len(calls.replies) : calls.replies[i].id = id

\* AppStateManager.installServer(id) up to its await, and the install
\* handler up to the first npm command
issueInstall(id) ==
  /\ calls.issued < MaxCalls
  /\ Exposed(electronAPI, "installMCPServer")
  /\ calls' =
       [calls EXCEPT
          !.issued = @ + 1,
          !.overlapped = @ \/ Pending(id),
          !.main = IF id \in VettedIds
                   THEN @ \cup {[n |-> calls.issued + 1, id |-> id, phase |-> "checking",
                                 packageInstalled |-> FALSE, tools |-> << >>,
                                 wrote |-> {}, recordSaved |-> FALSE]}
                   ELSE @,
          !.replies = IF id \in VettedIds THEN @
                      ELSE Append(@, [op |-> "install", id |-> id, success |-> FALSE])]
  /\ UNCHANGED <<managerVars, rendererVars, ipc, timerVars>>

\* installServer of the manager from the end of steps 1 and 2 to the npm
\* command of step 5: the record is added and the tools are configured
installConfigure(c, packageInstalled) ==
  /\ c \in calls.main
  /\ c.phase = "checking"
  /\ \E added \in {addToInstalledList(store, c.id, StoreFile \notin unwritable)},
        configResults \in {configureAITools(toolFiles, c.id, unwritable)} :
       /\ store' = added.file
       /\ toolFiles' = configResults.files
       /\ calls' = [calls EXCEPT !.main =
                      (@ \ {c}) \cup {[c EXCEPT !.phase = "verifying",
                                                !.packageInstalled = packageInstalled,
                                                !.tools = configResults.tools,
                                                !.wrote = configResults.wrote,
                                                !.recordSaved = added.saved]}]
  /\ UNCHANGED <<unwritable, execFound, envSteps, last, rendererVars, ipc, timerVars>>

\* installServer of the manager from the end of the verification to its
\* return: the reply is sent
installReturn(c, npm) ==
  /\ c \in calls.main
  /\ c.phase = "verifying"
  /\ LET configurationApplied == TRUE
         verificationResult ==
           verifyServerInstallation(store, c.id, NpmLists(npm), NpxResponds(npm))
     IN /\ last' = [NoResult EXCEPT
                      !.op = "install", !.id = c.id,
                      !.success = c.packageInstalled \/ configurationApplied,
                      !.packageInstalled = c.packageInstalled,
                      !.configurationApplied = configurationApplied,
                      !.tools = c.tools,
                      !.wrote = c.wrote,
                      !.recordSaved = c.recordSaved,
                      !.verification = verificationResult]
        /\ calls' = [calls EXCEPT
                       !.main = @ \ {c},
                       !.replies = Append(@, [op |-> "install", id |-> c.id,
                                              success |-> c.packageInstalled \/ configurationApplied])]
  /\ UNCHANGED <<store, toolFiles, unwritable, execFound, envSteps, rendererVars, ipc, timerVars>>

\* AppStateManager.uninstallServer(id) up to its await, and the uninstall
\* handler to its end
issueUninstall(id) ==
  /\ calls.issued < MaxCalls
  /\ Exposed(electronAPI, "uninstallMCPServer")
  /\ IF id \in VettedIds THEN uninstallServer(id, FALSE) ELSE uninstallUnknown(id)
  /\ calls' = [calls EXCEPT
                 !.issued = @ + 1,
                 !.overlapped = @ \/ Pending(id),
                 !.replies = Append(@, [op |-> "uninstall", id |-> id,
                                        success |-> last'.success])]
  /\ UNCHANGED <<rendererVars, ipc, timerVars>>

\* the first reply arrives: installServer or uninstallServer of the registry
\* from its await to its return
resolveCall ==
  /\ calls.replies # << >>
  /\ LET result == Head(calls.replies)
         id == result.id
     IN /\ IF result.success /\ id \in DOMAIN servers
           THEN /\ servers' =
                     [servers EXCEPT ![id] =
                        IF result.op = "install"
                        THEN [@ EXCEPT !.installed = TRUE, !.status = "working",
                                       !.lastVerified = TRUE]
                        ELSE [@ EXCEPT !.installed = FALSE, !.status = "failed",
                                       !.lastVerified = FALSE]]
                /\ aiTools' = IF result.op = "install" THEN EnableForTools(aiTools, id)
                              ELSE DisableForTools(aiTools, id)
                /\ notified' = notifyListeners(listeners)
           ELSE /\ notified' = {}
                /\ UNCHANGED <<servers, aiTools>>
        /\ regLast' = [op |-> result.op, id |-> id, success |-> result.success]
        /\ calls' = [calls EXCEPT !.replies = Tail(@)]
  /\ UNCHANGED <<electronAPI, listeners, initialized, inflight, managerVars, ipc, timerVars>>

IssueInstall == \E id \in RegistryIds : issueInstall(id)

InstallConfigure ==
  \E c \in calls.main, packageInstalled \in BOOLEAN : installConfigure(c, packageInstalled)

InstallReturn == \E c \in calls.main, npm \in RegistryNpmOutcomes : installReturn(c, npm)

IssueUninstall == \E id \in RegistryIds : issueUninstall(id)

ResolveCall == resolveCall

\* the application with its preload script on a fresh machine, once the
\* two calls of the constructor resolved
InitOverlap == InitTimer

NextOverlap ==
  \/ IssueInstall
  \/ InstallConfigure
  \/ InstallReturn
  \/ IssueUninstall
  \/ ResolveCall

SpecOverlap == InitOverlap /\ [][NextOverlap]_vars

\* ------------------------------------------------------------------ claims
\* a step of installServer / uninstallServer of a catalog server
InstallStep == last'.op = "install" /\ last'.id \in VettedIds

UninstallAfterInstall ==
  /\ last.op = "install" /\ last.id \in VettedIds
  /\ last'.op = "uninstall" /\ last'.id = last.id

\* g is f with nothing but the entry of serverId under ns added or replaced
OnlyEntryWritten(f, g, ns, serverId) ==
  /\ g.kind = "ok"
  /\ DOMAIN g.obj = DOMAIN f.obj \cup {ns}
  /\ \A k \in DOMAIN f.obj \ {ns} : g.obj[k] = f.obj[k]
  /\ DOMAIN g.obj[ns] = DOMAIN GetOrEmpty(f.obj, ns) \cup {serverId}
  /\ \A s \in DOMAIN GetOrEmpty(f.obj, ns) \ {serverId} : g.obj[ns][s] = f.obj[ns][s]

\* g is f with nothing but the entry of serverId under ns taken out
OnlyEntryRemoved(f, g, ns, serverId) ==
  /\ g.kind = "ok"
  /\ ~HasEntry(g, ns, serverId)
  /\ DOMAIN g.obj = DOMAIN f.obj
  /\ \A k \in DOMAIN f.obj \ {ns} : g.obj[k] = f.obj[k]
  /\ DOMAIN g.obj[ns] = DOMAIN f.obj[ns] \ {serverId}
  /\ \A s \in DOMAIN g.obj[ns] : g.obj[ns][s] = f.obj[ns][s]

\* the keys under ns that hold the entry of serverId
EntriesOf(f, ns, serverId) ==
  IF f.kind = "ok" /\ ns \in DOMAIN f.obj
  THEN {k \in DOMAIN f.obj[ns] : f.obj[ns][k] = ServerEntry(serverId, FindServer(serverId))}
  ELSE {}

\* C1: for every catalog server S, whatever the install-state file held and
\* whatever the package install did, a verifyServerInstallation(S) that
\* follows a completed installServer(S) reports configurationValid = true.
C1_InstallThenVerifyValid ==
  [][ (/\ last.op = "install" /\ last.id \in VettedIds
       /\ last'.op = "verify" /\ last'.id = last.id)
      => last'.verification.configurationValid ]_vars

\* C2: for every catalog server S, a verifyServerInstallation(S) that follows
\* a completed uninstallServer(S) reports configurationValid = false.
C2_UninstallThenVerifyInvalid ==
  [][ (/\ last.op = "uninstall" /\ last.id \in VettedIds
       /\ last'.op = "verify" /\ last'.id = last.id)
      => ~last'.verification.configurationValid ]_vars

\* C3: the overall status is, on all 8 combinations of (packageAvailable,
\* configurationValid, serverResponds): working for (T,T,T), partial for
\* (F,T,*) and (T,T,F), failed whenever configurationValid is false; and
\* every verification the manager returns carries that status.
TriState(pa, cv, sr) ==
  CASE pa /\ cv /\ sr   -> "working"
    [] ~pa /\ cv        -> "partial"
    [] pa /\ cv /\ ~sr  -> "partial"
    [] ~cv              -> "failed"

C3_TriStateRule ==
  /\ \A pa, cv, sr \in BOOLEAN : OverallStatus(pa, cv, sr) = TriState(pa, cv, sr)
  /\ last.op \in {"install", "verify"} =>
       last.verification.overallStatus =
         TriState(last.verification.packageAvailable,
                  last.verification.configurationValid,
                  last.verification.serverResponds)

C3_Witness ==
  /\ last.op = "verify"
  /\ ~last.verification.packageAvailable
  /\ last.verification.configurationValid
  /\ last.verification.overallStatus = "partial"

\* C4 (as stated): for every tool and server S, after the tool's write step
\* for S (a step of installServer) the tool's file holds an entry for S
\* under the tool's namespace; after the remove step that follows (a step of
\* uninstallServer) the entry is gone and all the rest of the file is as it
\* was.
C4_Original ==
  [][ /\ InstallStep =>
           \A t \in AI_TOOL_CONFIG_PATHS :
             HasEntry(toolFiles'[t], Namespace(t), last'.id)
      /\ UninstallAfterInstall =>
           \A t \in AI_TOOL_CONFIG_PATHS :
             OnlyEntryRemoved(toolFiles[t], toolFiles'[t], Namespace(t), last.id) ]_vars

\* C4 (amended): the same for every tool whose write step wrote the file;
\* the step writes nothing when a VS Code or Cursor settings file does not
\* exist or when the file cannot be written.
C4_WriteRemoveRoundTrip ==
  [][ /\ InstallStep =>
           \A t \in last'.wrote :
             HasEntry(toolFiles'[t], Namespace(t), last'.id)
      /\ UninstallAfterInstall =>
           \A t \in last.wrote :
             OnlyEntryRemoved(toolFiles[t], toolFiles'[t], Namespace(t), last.id) ]_vars

C4_Witness ==
  /\ last.op = "uninstall"
  /\ last.prev = <<"install", last.id>>
  /\ \E t \in last.wrote :
       /\ "unrelated" \in DOMAIN toolFiles[t].obj
       /\ ~HasEntry(toolFiles[t], Namespace(t), last.id)
       /\ \E s \in CatalogIds \ {last.id} : HasEntry(toolFiles[t], Namespace(t), s)

NoToolDetected == \A t \in toolConfigs : ~Detected(t, toolFiles, execFound)

C6_NoToolNoEntry ==
  [][ (/\ NoToolDetected
       /\ InstallStep
       /\ FindServer(last'.id).requiresAuth)
      => /\ last'.success
         /\ last'.verification.configurationValid
         /\ \A t \in AI_TOOL_CONFIG_PATHS, s \in VettedIds :
              ~HasEntry(toolFiles'[t], Namespace(t), s) ]_vars

\* C7: a write step on a tool config file that parses as JSON keeps every
\* top-level key and every entry of another server as it was; nothing but
\* the entry of the written server under the tool's namespace is added or
\* replaced (a step that does not write leaves the file as it was).
C7_WriteKeepsOthers ==
  [][ InstallStep =>
        \A t \in AI_TOOL_CONFIG_PATHS :
          toolFiles[t].kind = "ok" =>
            \/ toolFiles'[t] = toolFiles[t]
            \/ OnlyEntryWritten(toolFiles[t], toolFiles'[t], Namespace(t), last'.id) ]_vars

C7_Witness ==
  /\ last.op = "install"
  /\ \E t \in last.wrote :
       /\ "unrelated" \in DOMAIN toolFiles[t].obj
       /\ HasEntry(toolFiles[t], Namespace(t), last.id)
       /\ \E s \in CatalogIds \ {last.id} : HasEntry(toolFiles[t], Namespace(t), s)

\* C8: a write step on an existing tool config file that holds malformed JSON
\* (and can be written) leaves a file that holds the new server entry and
\* nothing else.
C8_MalformedDiscarded ==
  [][ InstallStep =>
        \A t \in AI_TOOL_CONFIG_PATHS :
          (toolFiles[t].kind = "malformed" /\ t \notin unwritable) =>
            /\ toolFiles'[t].kind = "ok"
            /\ DOMAIN toolFiles'[t].obj = {Namespace(t)}
            /\ DOMAIN toolFiles'[t].obj[Namespace(t)] = {last'.id}
            /\ t \in last'.wrote ]_vars

\* Cursor's file exists only once the environment made it: malformed, or
\* with a key of its own that every write keeps
C8_Witness ==
  /\ last.op = "install"
  /\ "cursor" \in last.wrote
  /\ DOMAIN toolFiles["cursor"].obj = {"mcp.servers"}
  /\ DOMAIN toolFiles["cursor"].obj["mcp.servers"] = {last.id}

\* C9: installServer of a catalog server returns success = true exactly when
\* the installed-record was written or at least one tool config file was
\* written.
C9_SuccessIffPersistedOrConfigured ==
  (last.op = "install" /\ last.id \in VettedIds) =>
    (last.success <=> (last.recordSaved \/ last.wrote # {}))

\* C10: uninstallServer of a catalog server returns success = true exactly
\* when the installed-record was removed from the persisted document or the
\* package was removed.
C10_SuccessIffRecordOrPackageRemoved ==
  (last.op = "uninstall" /\ last.id \in VettedIds) =>
    (last.success <=> (last.recordSaved \/ last.packageRemoved))

\* C11: in every reachable state of the registry every server with
\* installed = false has status 'failed' and no lastVerified value.
C11_NotInstalledIsFailed ==
  \A id \in DOMAIN servers :
    ~servers[id].installed =>
      (servers[id].status = "failed" /\ ~servers[id].lastVerified)

\* C12: in every reachable state the enabledTools list of every server, in
\* the persisted record and in the registry's copy, holds identifiers of
\* known tools only.
KnownToolsOnly(list) == \A i \in 1..Len(list) : list[i] \in AI_TOOL_CONFIG_PATHS

C12_EnabledToolsAreTools ==
  /\ \A id \in DOMAIN getInstalledServers(store) :
       KnownToolsOnly(getInstalledServers(store)[id].enabledTools)
  /\ \A id \in DOMAIN servers : KnownToolsOnly(servers[id].enabledTools)

\* C13: after a successful registry installServer(S), S is enabled for every
\* tool whose status is detected at that moment and for no other tool; after
\* a successful registry uninstallServer(S), S is enabled for no tool.
C13_EnabledForDetectedTools ==
  /\ (regLast.op = "install" /\ regLast.success /\ regLast.id \in DOMAIN servers) =>
       \A t \in DOMAIN aiTools :
         Includes(aiTools[t].enabledServers, regLast.id) <=> aiTools[t].status = "detected"
  /\ (regLast.op = "uninstall" /\ regLast.success /\ regLast.id \in DOMAIN servers) =>
       \A t \in DOMAIN aiTools : ~Includes(aiTools[t].enabledServers, regLast.id)

\* C14: every registry operation that changes the in-memory servers or tools
\* calls, before it returns, every listener subscribed at that moment, and
\* no operation calls a listener that is not subscribed (one whose
\* unsubscribe function was called).
C14_MutationNotifiesSubscribers ==
  [][ /\ (servers' # servers \/ aiTools' # aiTools) => notified' = listeners
      /\ notified' \subseteq listeners ]_vars

\* an install changed the registry after one of two subscribers left
C14_Witness ==
  /\ regLast.op = "install" /\ regLast.success
  /\ regLast.id \in DOMAIN servers
  /\ Cardinality(listeners) = 1
  /\ notified = listeners

\* C15: when the registry is constructed and the backend cannot be reached
\* (the backend API is absent, or the call fails), the registry holds the
\* static built-in catalog with every server not installed and reports
\* itself initialized.
C15_FallbackWhenUnreachable ==
  ( \/ electronAPI = "absent"
    \/ regLast.op = "loadServers" /\ ~regLast.success )
  => /\ servers = initializeFallbackServers
     /\ \A id \in DOMAIN servers : ~servers[id].installed
     /\ initialized

\* C16: every IPC handler, for every argument and every failure of the
\* service it calls, returns a value and never throws to the caller; on
\* failure the value it returns has the shape {success: false, message}.
C16_HandlersReturnFailureShape ==
  ipc.channel # "none" =>
    /\ ~ipc.raised
    /\ ipc.returned # "none"
    /\ ipc.serviceRaised => ipc.returned = "failure"

LoadStep ==
  /\ "getVettedServers" \in inflight
  /\ "getVettedServers" \notin inflight'
  /\ regLast'.op = "loadServers" /\ regLast'.success

C18_InstalledIffRecord ==
  [][ /\ \A id \in VettedIds :
           getVettedServers(store')[id].installed <=> HasEntry(store', InstalledKey, id)
      /\ LoadStep =>
           \A id \in VettedIds :
             servers'[id].installed <=> HasEntry(store, InstalledKey, id) ]_vars

\* the catalog reports a server as installed whose package npm does not list
C18_Witness ==
  /\ regLast.op = "loadServers" /\ regLast.success
  /\ last.op = "install"
  /\ ~last.verification.packageAvailable
  /\ last.id \in DOMAIN servers
  /\ servers[last.id].installed
  /\ HasEntry(store, InstalledKey, last.id)
  /\ \E id \in AuthServerIds : ~servers[id].installed

\* C19: when installServer configures a tool for a catalog server that
\* requires authentication, the entry written into the tool's config file
\* has an env object naming at least one placeholder variable.
C19_AuthEntryHasPlaceholder ==
  [][ (last'.op = "install" /\ last'.id \in VettedIds /\ FindServer(last'.id).requiresAuth) =>
        \A t \in last'.wrote :
          /\ HasEntry(toolFiles'[t], Namespace(t), last'.id)
          /\ toolFiles'[t].obj[Namespace(t)][last'.id].hasEnv
          /\ toolFiles'[t].obj[Namespace(t)][last'.id].env # {} ]_vars

\* C20: the auto-configuration step of installServer creates no tool
\* config file: the set of existing tool config files is the same before
\* and after an install.
ExistingToolFiles(files) == {t \in AI_TOOL_CONFIG_PATHS : existsSync(files[t])}

C20_InstallCreatesNoToolFile ==
  [][ (last'.op = "install" /\ last'.id \in VettedIds) =>
        ExistingToolFiles(toolFiles') = ExistingToolFiles(toolFiles) ]_vars

\* C21: every callback of the running health-check timer re-verifies every
\* installed server, and refreshes the tool detection on the slower cadence
\* only: never earlier than a quarter of an hour after the timer was
\* started, never earlier than a quarter of an hour after the previous
\* refresh of the timer.
C21_HealthCheckCadence ==
  [][ tick' # tick =>
        /\ tick'.verified = InstalledServers
        /\ tick'.refreshed =>
             /\ now >= activeTimers[healthCheckInterval].startedAt + FifteenMinutes
             /\ lastAIToolRefresh # 0 => now - lastAIToolRefresh >= FifteenMinutes ]_vars

\* C26: whatever startPeriodicHealthCheck and stopPeriodicHealthCheck calls
\* were made, at most one interval timer is active and it is the one the
\* manager holds; after stopPeriodicHealthCheck none is active, and a
\* callback of the timer runs only while the manager holds a timer.
C26_AtMostOneTimer ==
  [][ /\ Cardinality(DOMAIN activeTimers') <= 1
      /\ healthCheckInterval' = NoTimer => activeTimers' = EmptyMap
      /\ healthCheckInterval' # NoTimer => DOMAIN activeTimers' = {healthCheckInterval'}
      /\ tick' # tick => healthCheckInterval # NoTimer ]_vars

\* the timer was started again after one of its callbacks had run
C26_Witness ==
  /\ healthCheckInterval # NoTimer
  /\ DOMAIN activeTimers = {healthCheckInterval}
  /\ tick.at >= ClockStart
  /\ activeTimers[healthCheckInterval].startedAt > tick.at

\* C22: the registry holds one record per known tool in every reachable
\* state: the set of tool identifiers is the same before and after every
\* tool-detection pass.
C22_ToolSetIsFixed == DOMAIN aiTools = AI_TOOL_CONFIG_PATHS

\* C23: in the auto-configuration step of installServer and in the removal
\* step of uninstallServer every tool gets its own step, whatever happened
\* to the other tools: the file of each tool is what its own step leaves,
\* the tool is in the returned list exactly when its step did not fail,
\* and the operation still returns its result with success = true.
C23_ToolFailuresAreIndependent ==
  [][ /\ (last'.op = "install" /\ last'.id \in VettedIds) =>
           /\ last'.success
           /\ \A t \in AI_TOOL_CONFIG_PATHS :
                LET step == ConfigureTool(t, toolFiles[t], last'.id, FindServer(last'.id),
                                          t \notin unwritable)
                IN /\ toolFiles'[t] = step.file
                   /\ Includes(last'.tools, DisplayName(t)) <=> ~step.threw
      /\ (last'.op = "uninstall" /\ last'.id \in VettedIds) =>
           /\ last'.success
           /\ \A t \in AI_TOOL_CONFIG_PATHS :
                LET step == RemoveFromTool(t, toolFiles[t], last'.id, t \notin unwritable)
                IN /\ toolFiles'[t] = step.file
                   /\ Includes(last'.tools, DisplayName(t)) <=> ~step.threw ]_vars

\* an install that could not write the first tool's file and wrote the
\* second one's
C23_Witness ==
  /\ last.op = "install"
  /\ last.success
  /\ "claude-desktop" \in unwritable
  /\ ~Includes(last.tools, DisplayName("claude-desktop"))
  /\ ~HasEntry(toolFiles["claude-desktop"], Namespace("claude-desktop"), last.id)
  /\ "claude-code" \in last.wrote
  /\ Includes(last.tools, DisplayName("claude-code"))
  /\ HasEntry(toolFiles["claude-code"], Namespace("claude-code"), last.id)

\* C24: in every result of verifyServerInstallation, serverResponds implies
\* packageAvailable, since the probe is run only when the package is
\* listed; for an identifier outside the catalog the three flags are false
\* and the status is 'failed'.
C24_RespondsOnlyIfAvailable ==
  last.op \in {"verify", "install"} =>
    /\ last.verification.serverResponds => last.verification.packageAvailable
    /\ last.id \notin VettedIds => last.verification = FailedVerification

\* a verification of an installed catalog server whose package is not
\* available: the probe is not run and the server does not respond
C24_Witness ==
  /\ last.op = "verify"
  /\ last.id \in VettedIds
  /\ last.verification.configurationValid
  /\ last.verification.overallStatus = "partial"
  /\ ~last.verification.packageAvailable
  /\ ~last.verification.serverResponds

\* C28: installServer(S) for a server S that has a persisted record keeps
\* the enabledTools of the record: every tool enabled for S before the
\* install is enabled for S after it.
C28_ReinstallKeepsEnabledTools ==
  [][ (last'.op = "install" /\ last' # last /\ HasEntry(store, InstalledKey, last'.id)) =>
        \A i \in 1..Len(getEnabledTools(store, last'.id)) :
          Includes(getEnabledTools(store', last'.id), getEnabledTools(store, last'.id)[i]) ]_vars

\* C29: enableServerForTool(S, T) and disableServerForTool(S, T) return
\* false and leave the persisted document as it is when S has no record;
\* when S has a record, after enable T occurs exactly once in S's
\* enabledTools, and after disable T does not occur, the other tools of S
\* are kept in order and the records of the other servers are unchanged.
Count(list, x) == Len(SelectSeq(list, LAMBDA y : y = x))

OtherRecordsKept(serverId) ==
  /\ DOMAIN getInstalledServers(store') = DOMAIN getInstalledServers(store)
  /\ \A id \in DOMAIN getInstalledServers(store) \ {serverId} :
       getInstalledServers(store')[id] = getInstalledServers(store)[id]

C29_EnableDisableSemantics ==
  [][ last'.op \in {"enable", "disable"} =>
        IF ~HasEntry(store, InstalledKey, last'.id)
        THEN ~last'.success /\ store' = store
        ELSE /\ last'.success
             /\ OtherRecordsKept(last'.id)
             /\ last'.op = "enable" =>
                  Count(getEnabledTools(store', last'.id), last'.tool) = 1
             /\ last'.op = "disable" =>
                  getEnabledTools(store', last'.id) =
                    Without(getEnabledTools(store, last'.id), last'.tool) ]_vars

\* C30: installServer and uninstallServer called with an identifier that is
\* not in the catalog return success = false and change nothing: the
\* persisted document and every tool config file are as before the call,
\* and no package command was run.
C30_UnknownIdChangesNothing ==
  [][ (last'.op \in {"install", "uninstall"} /\ last'.id \notin VettedIds) =>
        /\ ~last'.success
        /\ store' = store
        /\ toolFiles' = toolFiles
        /\ ~last'.packageInstalled /\ ~last'.packageRemoved ]_vars

\* an unknown identifier was refused on a machine that has a server installed
C30_Witness ==
  /\ last.op \in {"install", "uninstall"}
  /\ last.id = UnknownId
  /\ ~last.success
  /\ \E id \in VettedIds : HasEntry(store, InstalledKey, id)
  /\ \E t \in AI_TOOL_CONFIG_PATHS : existsSync(toolFiles[t])

\* C27: a tool-detection refresh of the registry keeps the servers enabled
\* for every tool: an installed server that was enabled for a tool before
\* the detection result was loaded is enabled for it afterwards.
DetectionLoaded ==
  /\ "detectAITools" \in inflight
  /\ "detectAITools" \notin inflight'

C27_RefreshKeepsEnabledServers ==
  [][ DetectionLoaded =>
        \A t \in DOMAIN aiTools \cap DOMAIN aiTools' :
          \A id \in DOMAIN servers :
            (servers[id].installed /\ Includes(aiTools[t].enabledServers, id)) =>
              Includes(aiTools'[t].enabledServers, id) ]_vars

\* C25: when install and uninstall calls of the registry for the same
\* server overlapped, then once all of them resolved the installed flag of
\* the server in the registry equals whether the persisted document holds
\* a record of it.
C25_OverlapEndsConsistent ==
  (calls.overlapped /\ calls.main = {} /\ calls.replies = << >>) =>
    \A id \in DOMAIN servers :
      servers[id].installed <=> HasEntry(store, InstalledKey, id)

====
